---- MODULE Spec2Model ----
(***************************************************************************)
(* The order-reconciliation server of src/server.js: the SKU -> MSKU       *)
(* mapping table, the combo table, the inventory ledger and its snapshot   *)
(* (masterData), the loaders that fill them, the order batch processor,    *)
(* the ledger reconciler and reset, and the request handlers               *)
(* POST /process-orders and POST /reset-inventory.                         *)
(*                                                                         *)
(* Representation.  A JavaScript string is a tuple of one-character        *)
(* strings, so that trim, toLowerCase, includes and parseInt are computed  *)
(* and not assumed.  A JavaScript value is a tagged record: Str(s),        *)
(* Num(n), NaN or Null (null and undefined).  A parsed CSV row is a        *)
(* function from column names to values; a cell that is missing has no     *)
(* key.  masterData's Maps are functions (the order of their entries is    *)
(* read by no code that the model covers); the sold-quantity Maps are      *)
(* sequences of entries in insertion order, which updateInventoryWithSales *)
(* iterates.  Presentation-only fields (productName, panel, orderDate,     *)
(* customerLocation) are left out of the records.                          *)
(***************************************************************************)
EXTENDS Integers, Sequences, FiniteSets, TLC

VARIABLES
  masterData,          \* the four tables of lines 19-24
  phase,               \* position of loadMasterFilesOnStartup / "listening"
  pc,                  \* position of the /process-orders handler in flight
  pendingData,         \* rows of the parseCSV promise being awaited
  filesDone,           \* order files of the request processed so far
  allProcessedOrders,  \* handler locals of lines 519-522
  combinedMsquMap,
  allUnmappedSkus,
  marketplaceSummary,
  orderData,           \* loop locals of lines 528-534
  marketplace,
  result,
  rowIdx,              \* rows of orderData consumed by processOrderData's forEach
  res,                 \* the last response sent by a handler
  loadTimeStock,       \* history: currentStock of every item right after the load
  other                \* a second /process-orders request in flight

vars == <<masterData, phase, pc, pendingData, filesDone, allProcessedOrders,
          combinedMsquMap, allUnmappedSkus, marketplaceSummary, orderData,
          marketplace, result, rowIdx, res, loadTimeStock, other>>

handlerLocals == <<filesDone, allProcessedOrders, combinedMsquMap, allUnmappedSkus,
                   marketplaceSummary, orderData, marketplace, result>>

-----------------------------------------------------------------------------
(* Bounds of the model                                                     *)

MaxMasterRows == 1
MaxComboRows == 1
MaxInventoryRows == 2
MaxOrderFiles == 2
MaxBatchRows == 2
MaxOtherFiles == 1

-----------------------------------------------------------------------------
(* JavaScript values                                                       *)

Str(s) == [t |-> "str", v |-> s]
Num(n) == [t |-> "num", v |-> n]
NaN == [t |-> "nan", v |-> 0]
Null == [t |-> "null", v |-> 0]

\* x in a boolean context: '', 0, NaN, null and undefined are falsy
Truthy(x) ==
  CASE x.t = "str" -> x.v # <<>>
    [] x.t = "num" -> x.v # 0
    [] OTHER -> FALSE

\* a || b
JsOr(a, b) == IF Truthy(a) THEN a ELSE b

\* a === b (NaN equals nothing, itself included)
JsStrictEq(a, b) == a.t = b.t /\ a.t # "nan" /\ a = b

\* a > b, false when either side is NaN
JsGt(a, b) == a.t = "num" /\ b.t = "num" /\ a.v > b.v

JsSub(a, b) == IF a.t = "num" /\ b.t = "num" THEN Num(a.v - b.v) ELSE NaN

\* Math.max(a, b): NaN when either argument is NaN
JsMax(a, b) ==
  IF a.t = "num" /\ b.t = "num" THEN Num(IF a.v >= b.v THEN a.v ELSE b.v) ELSE NaN

WhiteSpace == {" ", "\t"}

RECURSIVE TrimStart(_)
TrimStart(s) ==
  IF s # <<>> /\ Head(s) \in WhiteSpace THEN TrimStart(Tail(s)) ELSE s

RECURSIVE TrimEnd(_)
TrimEnd(s) ==
  IF s # <<>> /\ s[Len(s)] \in WhiteSpace THEN TrimEnd(SubSeq(s, 1, Len(s) - 1)) ELSE s

\* String.prototype.trim
Trim(s) == TrimEnd(TrimStart(s))

Digits == <<"0", "1", "2", "3", "4", "5", "6", "7", "8", "9">>
IsDigit(c) == \E i \in 1..10 : Digits[i] = c
DigitVal(c) == (CHOOSE i \in 1..10 : Digits[i] = c) - 1

RECURSIVE NatToStr(_)
NatToStr(n) ==
  IF n < 10 THEN <<Digits[n + 1]>> ELSE NatToStr(n \div 10) \o <<Digits[(n % 10) + 1]>>

\* x.toString() of a string or a number
toString(x) ==
  CASE x.t = "str" -> x.v
    [] x.t = "num" -> IF x.v < 0 THEN <<"-">> \o NatToStr(-x.v) ELSE NatToStr(x.v)
    [] x.t = "nan" -> <<"N", "a", "N">>
    [] OTHER -> <<"n", "u", "l", "l">>

RECURSIVE DigitsPrefix(_, _)
DigitsPrefix(s, acc) ==
  IF s = <<>> \/ ~IsDigit(Head(s)) THEN acc
  ELSE DigitsPrefix(Tail(s), acc * 10 + DigitVal(Head(s)))

\* parseInt(x): the integer a string starts with (after white space and a
\* sign), NaN when it starts with none; an integer number is itself
ParseInt(x) ==
  CASE x.t = "num" -> x
    [] x.t = "str" ->
         LET t == TrimStart(x.v)
             signed == t # <<>> /\ Head(t) \in {"-", "+"}
             body == IF signed THEN Tail(t) ELSE t
         IN  IF body = <<>> \/ ~IsDigit(Head(body)) THEN NaN
             ELSE IF signed /\ Head(t) = "-" THEN Num(0 - DigitsPrefix(body, 0))
             ELSE Num(DigitsPrefix(body, 0))
    [] OTHER -> NaN

UpperCase == <<"A", "B", "C", "D", "E", "F", "G", "H", "I", "J", "K", "L", "M", "N", "O", "P", "Q", "R", "S", "T", "U", "V", "W", "X", "Y", "Z">>
LowerCase == <<"a", "b", "c", "d", "e", "f", "g", "h", "i", "j", "k", "l", "m", "n", "o", "p", "q", "r", "s", "t", "u", "v", "w", "x", "y", "z">>

ToLowerChar(c) ==
  IF \E i \in 1..26 : UpperCase[i] = c
  THEN LowerCase[CHOOSE i \in 1..26 : UpperCase[i] = c]
  ELSE c

\* String.prototype.toLowerCase
ToLowerCase(s) == [i \in 1..Len(s) |-> ToLowerChar(s[i])]

\* s.includes(sub)
Includes(s, sub) ==
  \E i \in 0..(Len(s) - Len(sub)) : SubSeq(s, i + 1, i + Len(sub)) = sub

\* Map.prototype.set on a table kept as a function
MapSet(m, k, val) == [x \in (DOMAIN m) \cup {k} |-> IF x = k THEN val ELSE m[x]]

EmptyMap == [x \in {} |-> Null]

\* the sequences over S of length at most n
SeqsUpTo(S, n) == UNION {[1..k -> S] : k \in 0..n}

-----------------------------------------------------------------------------
(* Column resolver, lines 245-252                                          *)

RECURSIVE findColumnValue(_, _)
findColumnValue(row, possibleNames) ==
  IF possibleNames = <<>> THEN Null
  ELSE LET name == Head(possibleNames)
       IN  IF name \in DOMAIN row /\ row[name] # Null /\ row[name] # Str(<<>>)
           THEN row[name]
           ELSE findColumnValue(row, Tail(possibleNames))

-----------------------------------------------------------------------------
(* Mapping table builder, lines 97-120                                     *)

\* the test of line 107: the cells are compared as parsed, before trimming
storesMapping(sku, msku) ==
  Truthy(sku) /\ Truthy(msku) /\ ~JsStrictEq(sku, msku)

\* the forEach callback of lines 101-115, on the table
loadMasterRow(skuToMsku, row) ==
  LET sku == findColumnValue(row, <<<<"s", "k", "u">>, <<"S", "K", "U">>, <<"S", "k", "u">>>>)
      msku == findColumnValue(row, <<<<"m", "s", "k", "u">>, <<"M", "S", "K", "U">>, <<"M", "s", "k", "u">>>>)
  IN  IF storesMapping(sku, msku)
      THEN MapSet(skuToMsku, Trim(toString(sku)), Trim(toString(msku)))
      ELSE skuToMsku

RECURSIVE loadMasterRows(_, _)
loadMasterRows(skuToMsku, data) ==
  IF data = <<>> THEN skuToMsku
  ELSE loadMasterRows(loadMasterRow(skuToMsku, Head(data)), Tail(data))

\* loadMasterData's then-callback: the rows are set into the table as it is
loadMasterData(md, data) ==
  [md EXCEPT !.skuToMsku = loadMasterRows(md.skuToMsku, data)]

-----------------------------------------------------------------------------
(* Combo table builder, lines 123-173                                      *)

ComboSlots == 14

SlotNames(i) ==
  LET n == NatToStr(i) IN <<<<"S", "K", "U">> \o n, <<"s", "k", "u">> \o n>>

RECURSIVE comboComponents(_, _)
comboComponents(row, i) ==
  IF i > ComboSlots THEN <<>>
  ELSE LET component == findColumnValue(row, SlotNames(i))
       IN  (IF Truthy(component) /\ Trim(toString(component)) # <<>>
            THEN <<[msku |-> Trim(toString(component)), quantity |-> 1]>>
            ELSE <<>>) \o comboComponents(row, i + 1)

loadComboRow(comboSkus, row) ==
  LET comboSku == findColumnValue(row, <<<<"C", "o", "m", "b", "o", " ">>, <<"C", "o", "m", "b", "o">>, <<"c", "o", "m", "b", "o">>>>)
      status == findColumnValue(row, <<<<"S", "t", "a", "t", "u", "s">>, <<"s", "t", "a", "t", "u", "s">>, <<"S", "T", "A", "T", "U", "S">>>>)
      accepted == Truthy(comboSku) /\
                  (~Truthy(status)
                   \/ ToLowerCase(toString(status)) = <<"c", "o", "m", "b", "o">>
                   \/ ToLowerCase(toString(status)) = <<"a", "c", "t", "i", "v", "e">>)
      components == comboComponents(row, 1)
  IN  IF accepted /\ Len(components) > 0
      THEN MapSet(comboSkus, Trim(toString(comboSku)), components)
      ELSE comboSkus

RECURSIVE loadComboRows(_, _)
loadComboRows(comboSkus, data) ==
  IF data = <<>> THEN comboSkus
  ELSE loadComboRows(loadComboRow(comboSkus, Head(data)), Tail(data))

loadComboData(md, data) ==
  [md EXCEPT !.comboSkus = loadComboRows(md.comboSkus, data)]

-----------------------------------------------------------------------------
(* Inventory ledger builder, lines 176-242                                 *)

warehouseColumns ==
  <<<<"T", "L", "C", "Q">>, <<"B", "L", "R", "7">>, <<"B", "L", "R", "8">>, <<"B", "O", "M", "5">>, <<"B", "O", "M", "7">>, <<"C", "C", "U", "1">>, <<"C", "C", "X", "1">>, <<"D", "E", "L", "4">>,
    <<"D", "E", "L", "5">>, <<"D", "E", "X", "3">>, <<"P", "N", "Q", "2">>, <<"P", "N", "Q", "3">>, <<"S", "D", "E", "D">>, <<"S", "D", "E", "E">>, <<"X", "H", "J", "9">>>>

\* lines 192-198 for one row: the stock of the columns whose stock is > 0
warehouseStockOf(row, col) ==
  ParseInt(JsOr(findColumnValue(row, <<col>>), Num(0)))

RECURSIVE sumWarehouse(_, _)
sumWarehouse(row, cols) ==
  IF cols = <<>> THEN 0
  ELSE LET stock == warehouseStockOf(row, Head(cols))
       IN  (IF JsGt(stock, Num(0)) THEN stock.v ELSE 0) + sumWarehouse(row, Tail(cols))

inventoryDataOf(row) ==
  LET msku == findColumnValue(row, <<<<"m", "s", "k", "u">>, <<"M", "S", "K", "U">>, <<"M", "s", "k", "u">>>>)
      openingStock ==
        ParseInt(JsOr(findColumnValue(row, <<<<"O", "p", "e", "n", "i", "n", "g", " ", "S", "t", "o", "c", "k">>, <<"o", "p", "e", "n", "i", "n", "g", "_", "s", "t", "o", "c", "k">>, <<"O", "p", "e", "n", "i", "n", "g">>>>), Num(0)))
      bufferStock ==
        ParseInt(JsOr(findColumnValue(row, <<<<"B", "u", "f", "f", "e", "r", " ", "S", "t", "o", "c", "k">>, <<"b", "u", "f", "f", "e", "r", "_", "s", "t", "o", "c", "k">>, <<"B", "u", "f", "f", "e", "r">>>>), Num(0)))
      warehouseStock == sumWarehouse(row, warehouseColumns)
      breakdownCols == {i \in 1..Len(warehouseColumns) :
                          JsGt(warehouseStockOf(row, warehouseColumns[i]), Num(0))}
      totalStock == IF JsStrictEq(openingStock, Num(0)) /\ warehouseStock > 0
                    THEN Num(warehouseStock) ELSE openingStock
  IN  [msku |-> Trim(toString(msku)),
       status |-> IF JsGt(totalStock, Num(0)) THEN "In Stock" ELSE "Out of Stock",
       currentStock |-> totalStock,
       originalStock |-> totalStock,
       openingStock |-> openingStock,
       bufferStock |-> bufferStock,
       warehouseStock |-> Num(warehouseStock),
       warehouseBreakdown |-> [i \in breakdownCols |-> warehouseStockOf(row, warehouseColumns[i]).v]]

\* the forEach callback of lines 181-237: the item goes into the ledger and
\* a copy of it into the snapshot
loadInventoryRow(md, row) ==
  LET msku == findColumnValue(row, <<<<"m", "s", "k", "u">>, <<"M", "S", "K", "U">>, <<"M", "s", "k", "u">>>>)
  IN  IF Truthy(msku) /\ Trim(toString(msku)) # <<>>
      THEN LET msquKey == Trim(toString(msku))
           IN  [md EXCEPT !.currentInventory = MapSet(@, msquKey, inventoryDataOf(row)),
                          !.originalInventory = MapSet(@, msquKey, inventoryDataOf(row))]
      ELSE md

RECURSIVE loadCurrentInventory(_, _)
loadCurrentInventory(md, data) ==
  IF data = <<>> THEN md
  ELSE loadCurrentInventory(loadInventoryRow(md, Head(data)), Tail(data))

-----------------------------------------------------------------------------
(* Marketplace classifier, lines 255-276                                   *)

columnsOf(row) == {ToLowerCase(k) : k \in DOMAIN row}

detectMarketplace(data) ==
  IF data = <<>> THEN "unknown"
  ELSE LET columns == columnsOf(data[1])
       IN  IF \E col \in columns : Includes(col, <<"m", "s", "k", "u">>) THEN "meesho"
           ELSE IF \E col \in columns : Includes(col, <<"a", "s", "i", "n">>) \/ Includes(col, <<"a", "m", "a", "z", "o", "n">>)
                THEN "amazon"
           ELSE IF \E col \in columns : Includes(col, <<"f", "l", "i", "p", "k", "a", "r", "t">>) \/ Includes(col, <<"f", "s", "n">>)
                THEN "flipkart"
           ELSE IF \E col \in columns : Includes(col, <<"s", "k", "u">>) THEN "generic"
           ELSE "unknown"

-----------------------------------------------------------------------------
(* SKU normalizer and combo expander, lines 279-310                        *)

\* mutant: the mapping table is consulted for meesho as for the others
mapSkuToMskuAlwaysMapped(sku, mp, md) ==
  LET cleanSku == IF Truthy(sku) THEN Trim(toString(sku)) ELSE <<>>
  IN  IF cleanSku \in DOMAIN md.skuToMsku THEN md.skuToMsku[cleanSku] ELSE cleanSku

mapSkuToMsku(sku, mp, md) ==
  LET cleanSku == IF Truthy(sku) THEN Trim(toString(sku)) ELSE <<>>
  IN  IF mp = "meesho" THEN cleanSku
      ELSE IF cleanSku \in DOMAIN md.skuToMsku THEN md.skuToMsku[cleanSku]
      ELSE cleanSku

\* comboSkus.has(sku) for the raw cell: a key is a string, so only a string
\* cell can hit, and it is looked up untrimmed
hasRawCombo(sku, md) == sku.t = "str" /\ sku.v \in DOMAIN md.comboSkus

\* mutant: the combo table is looked up by the normalized MSKU only
expandComboSkuMappedOnly(sku, mp, md) ==
  LET mappedMsku == mapSkuToMsku(sku, mp, md)
  IN  IF mappedMsku \in DOMAIN md.comboSkus THEN md.comboSkus[mappedMsku]
      ELSE <<[msku |-> mappedMsku, quantity |-> 1]>>

expandComboSku(sku, mp, md) ==
  LET mappedMsku == mapSkuToMsku(sku, mp, md)
  IN  IF mappedMsku \in DOMAIN md.comboSkus THEN md.comboSkus[mappedMsku]
      ELSE IF hasRawCombo(sku, md) THEN md.comboSkus[sku.v]
      ELSE <<[msku |-> mappedMsku, quantity |-> 1]>>

-----------------------------------------------------------------------------
(* Order extractor, lines 313-356                                          *)

skuAliases(mp) ==
  CASE mp = "amazon" -> <<<<"S", "K", "U">>, <<"s", "k", "u">>, <<"A", "S", "I", "N">>, <<"a", "s", "i", "n">>>>
    [] mp = "flipkart" -> <<<<"S", "K", "U">>, <<"s", "k", "u">>, <<"F", "S", "N">>, <<"f", "s", "n">>>>
    [] mp = "meesho" -> <<<<"M", "S", "K", "U">>, <<"m", "s", "k", "u">>, <<"S", "K", "U">>, <<"s", "k", "u">>>>
    [] OTHER -> <<<<"S", "K", "U">>, <<"s", "k", "u">>, <<"M", "S", "K", "U">>, <<"m", "s", "k", "u">>, <<"P", "r", "o", "d", "u", "c", "t", " ", "C", "o", "d", "e">>, <<"I", "t", "e", "m", " ", "C", "o", "d", "e">>>>

quantityAliases(mp) ==
  IF mp \in {"amazon", "flipkart", "meesho"}
  THEN <<<<"Q", "u", "a", "n", "t", "i", "t", "y">>, <<"q", "u", "a", "n", "t", "i", "t", "y">>, <<"Q", "t", "y">>, <<"q", "t", "y">>>>
  ELSE <<<<"Q", "u", "a", "n", "t", "i", "t", "y">>, <<"q", "u", "a", "n", "t", "i", "t", "y">>, <<"Q", "t", "y">>, <<"q", "t", "y">>, <<"C", "o", "u", "n", "t">>, <<"A", "m", "o", "u", "n", "t">>>>

statusAliases(mp) ==
  CASE mp \in {"amazon", "flipkart"} -> <<<<"O", "r", "d", "e", "r", " ", "S", "t", "a", "t", "u", "s">>, <<"o", "r", "d", "e", "r", "-", "s", "t", "a", "t", "u", "s">>, <<"S", "t", "a", "t", "u", "s">>, <<"s", "t", "a", "t", "u", "s">>>>
    [] mp = "meesho" -> <<<<"S", "t", "a", "t", "u", "s">>, <<"s", "t", "a", "t", "u", "s">>, <<"O", "r", "d", "e", "r", " ", "S", "t", "a", "t", "u", "s">>>>
    [] OTHER -> <<<<"S", "t", "a", "t", "u", "s">>, <<"s", "t", "a", "t", "u", "s">>, <<"O", "r", "d", "e", "r", " ", "S", "t", "a", "t", "u", "s">>, <<"R", "e", "a", "s", "o", "n", " ", "f", "o", "r", " ", "C", "r", "e", "d", "i", "t", " ", "E", "n", "t", "r", "y">>, <<"S", "t", "a", "t", "e">>>>

extractOrderInfo(order, mp) ==
  [sku |-> findColumnValue(order, skuAliases(mp)),
   quantity |-> ParseInt(JsOr(findColumnValue(order, quantityAliases(mp)), Num(1))),
   status |-> findColumnValue(order, statusAliases(mp))]

-----------------------------------------------------------------------------
(* Status gate, lines 359-380                                              *)

validStatuses ==
  <<<<"d", "e", "l", "i", "v", "e", "r", "e", "d">>, <<"s", "h", "i", "p", "p", "e", "d">>, <<"r", "e", "a", "d", "y", "_", "t", "o", "_", "s", "h", "i", "p">>, <<"d", "i", "s", "p", "a", "t", "c", "h", "e", "d">>, <<"c", "o", "m", "p", "l", "e", "t", "e", "d">>,
    <<"f", "u", "l", "f", "i", "l", "l", "e", "d">>, <<"o", "u", "t", "_", "f", "o", "r", "_", "d", "e", "l", "i", "v", "e", "r", "y">>, <<"s", "u", "c", "c", "e", "s", "s">>, <<"c", "o", "n", "f", "i", "r", "m", "e", "d">>, <<"p", "r", "o", "c", "e", "s", "s", "i", "n", "g">>,
    <<"p", "a", "c", "k", "e", "d">>, <<"i", "n", "_", "t", "r", "a", "n", "s", "i", "t">>>>

invalidStatuses == <<<<"c", "a", "n", "c", "e", "l", "l", "e", "d">>, <<"r", "e", "t", "u", "r", "n", "e", "d">>, <<"r", "e", "f", "u", "n", "d", "e", "d">>, <<"r", "e", "j", "e", "c", "t", "e", "d">>, <<"f", "a", "i", "l", "e", "d">>>>

hasValidStatus(statusLower) ==
  \E i \in 1..Len(validStatuses) : Includes(statusLower, validStatuses[i])

hasInvalidStatus(statusLower) ==
  \E i \in 1..Len(invalidStatuses) : Includes(statusLower, invalidStatuses[i])

\* mutant: a positive keyword is enough
shouldProcessOrderIgnoringInvalid(status, mp) ==
  IF ~Truthy(status) THEN FALSE
  ELSE hasValidStatus(ToLowerCase(toString(status)))

shouldProcessOrder(status, mp) ==
  IF ~Truthy(status) THEN FALSE
  ELSE LET statusLower == ToLowerCase(toString(status))
       IN  hasValidStatus(statusLower) /\ ~hasInvalidStatus(statusLower)

-----------------------------------------------------------------------------
(* Sold-quantity Maps: entries [msku, qty] in insertion order              *)

QtyHas(m, k) == \E i \in 1..Len(m) : m[i].msku = k

\* m.get(k) || 0
QtyGet(m, k) == IF QtyHas(m, k) THEN m[CHOOSE i \in 1..Len(m) : m[i].msku = k].qty ELSE 0

\* m.set(k, q): an existing key keeps its place
QtySet(m, k, q) ==
  IF QtyHas(m, k)
  THEN [i \in 1..Len(m) |-> IF m[i].msku = k THEN [msku |-> k, qty |-> q] ELSE m[i]]
  ELSE Append(m, [msku |-> k, qty |-> q])

RECURSIVE QtySum(_)
QtySum(m) == IF m = <<>> THEN 0 ELSE Head(m).qty + QtySum(Tail(m))

\* lines 538-541: one batch's quantities added into the combined Map
RECURSIVE addAllQty(_, _)
addAllQty(m, entries) ==
  IF entries = <<>> THEN m
  ELSE addAllQty(QtySet(m, Head(entries).msku, QtyGet(m, Head(entries).msku) + Head(entries).qty),
                 Tail(entries))

\* Set.prototype.add on a Set kept as the sequence of its insertions
SetAdd(s, x) == IF \E i \in 1..Len(s) : s[i] = x THEN s ELSE Append(s, x)

RECURSIVE SetAddAll(_, _)
SetAddAll(s, xs) == IF xs = <<>> THEN s ELSE SetAddAll(SetAdd(s, Head(xs)), Tail(xs))

-----------------------------------------------------------------------------
(* Order batch processor, lines 383-440                                    *)

EmptyResult == [processedOrders |-> <<>>, msquQuantityMap |-> <<>>, unmappedSkus |-> <<>>]

\* the inner forEach of lines 403-426 over the components left to visit
RECURSIVE addExpandedItems(_, _, _, _, _)
addExpandedItems(acc, items, info, mp, isCombo) ==
  IF items = <<>> THEN acc
  ELSE LET item == Head(items)
           msku == item.msku
           itemQuantity == item.quantity * info.quantity.v
           next ==
             IF msku # <<>>
             THEN [acc EXCEPT
                     !.msquQuantityMap = QtySet(@, msku, QtyGet(@, msku) + itemQuantity),
                     !.processedOrders = Append(@, [marketplace |-> mp,
                                                    originalSku |-> info.sku,
                                                    mappedMsku |-> msku,
                                                    quantity |-> itemQuantity,
                                                    status |-> info.status,
                                                    isComboComponent |-> isCombo])]
             ELSE [acc EXCEPT !.unmappedSkus = SetAdd(@, info.sku)]
       IN  addExpandedItems(next, Tail(items), info, mp, isCombo)

\* the test of line 400
rowHasSkuAndQuantity(info) == Truthy(info.sku) /\ JsGt(info.quantity, Num(0))

\* the forEach callback of lines 390-431 for one order row
processOrderRow(acc, order, mp, md) ==
  LET info == extractOrderInfo(order, mp)
  IN  IF shouldProcessOrder(info.status, mp) /\ rowHasSkuAndQuantity(info)
      THEN LET expandedItems == expandComboSku(info.sku, mp, md)
           IN  addExpandedItems(acc, expandedItems, info, mp, Len(expandedItems) > 1)
      ELSE acc

RECURSIVE processOrderRows(_, _, _, _)
processOrderRows(acc, data, mp, md) ==
  IF data = <<>> THEN acc
  ELSE processOrderRows(processOrderRow(acc, Head(data), mp, md), Tail(data), mp, md)

processOrderData(data, mp, md) == processOrderRows(EmptyResult, data, mp, md)

-----------------------------------------------------------------------------
(* Ledger reconciler, lines 443-484, and ledger reset, lines 487-491       *)

\* mutant: the difference is not clamped at 0
newStockUnclamped(currentStock, soldQuantity) == JsSub(currentStock, Num(soldQuantity))

\* lines 450-451
newStockOf(currentStock, soldQuantity) == JsMax(Num(0), JsSub(currentStock, Num(soldQuantity)))

\* mutant: an entry without a ledger item creates the item with stock 0
RECURSIVE applySalesCreatingItems(_, _)
applySalesCreatingItems(inv, entries) ==
  IF entries = <<>> THEN inv
  ELSE LET e == Head(entries)
       IN  IF e.msku \in DOMAIN inv
           THEN applySalesCreatingItems(
                  [inv EXCEPT ![e.msku].currentStock = newStockOf(@, e.qty)], Tail(entries))
           ELSE applySalesCreatingItems(
                  MapSet(inv, e.msku, [currentStock |-> Num(0), originalStock |-> Num(0)]),
                  Tail(entries))

\* the ledger after the forEach of lines 446-481 over the entries left
RECURSIVE applySales(_, _)
applySales(inv, entries) ==
  IF entries = <<>> THEN inv
  ELSE LET e == Head(entries)
       IN  IF e.msku \in DOMAIN inv
           THEN applySales([inv EXCEPT ![e.msku].currentStock = newStockOf(@, e.qty)],
                           Tail(entries))
           ELSE applySales(inv, Tail(entries))

\* the InventoryUpdate pushed for each entry, in iteration order
RECURSIVE salesUpdates(_, _)
salesUpdates(inv, entries) ==
  IF entries = <<>> THEN <<>>
  ELSE LET e == Head(entries)
       IN  IF e.msku \in DOMAIN inv
           THEN LET item == inv[e.msku]
                    newStock == newStockOf(item.currentStock, e.qty)
                IN  <<[msku |-> e.msku,
                       originalStock |-> item.originalStock,
                       soldQuantity |-> e.qty,
                       newStock |-> newStock,
                       stockReduced |-> JsSub(item.currentStock, newStock),
                       status |-> item.status,
                       isOutOfStock |-> JsStrictEq(newStock, Num(0)),
                       notInInventory |-> FALSE]>>
                    \o salesUpdates([inv EXCEPT ![e.msku].currentStock = newStock], Tail(entries))
           ELSE <<[msku |-> e.msku,
                   originalStock |-> Num(0),
                   soldQuantity |-> e.qty,
                   newStock |-> Num(0),
                   stockReduced |-> Num(0),
                   status |-> "Unknown",
                   isOutOfStock |-> TRUE,
                   notInInventory |-> TRUE]>>
                \o salesUpdates(inv, Tail(entries))

\* Array.prototype.sort((a, b) => b.soldQuantity - a.soldQuantity): stable
RECURSIVE insertBySold(_, _)
insertBySold(sorted, u) ==
  IF sorted = <<>> THEN <<u>>
  ELSE IF Head(sorted).soldQuantity >= u.soldQuantity
       THEN <<Head(sorted)>> \o insertBySold(Tail(sorted), u)
       ELSE <<u>> \o sorted

RECURSIVE sortBySold(_)
sortBySold(us) ==
  IF us = <<>> THEN <<>>
  ELSE insertBySold(sortBySold(SubSeq(us, 1, Len(us) - 1)), us[Len(us)])

updateInventoryWithSales(md, msquQuantityMap) ==
  [masterData |-> [md EXCEPT !.currentInventory = applySales(@, msquQuantityMap)],
   inventoryUpdates |-> sortBySold(salesUpdates(md.currentInventory, msquQuantityMap))]

\* mutant: only the items missing from the ledger are restored
resetInventoryMissingOnly(md) ==
  [md EXCEPT !.currentInventory =
     [k \in (DOMAIN md.currentInventory) \cup (DOMAIN md.originalInventory) |->
        IF k \in DOMAIN md.currentInventory THEN md.currentInventory[k]
        ELSE md.originalInventory[k]]]

resetInventory(md) ==
  [md EXCEPT !.currentInventory =
     [k \in (DOMAIN md.currentInventory) \cup (DOMAIN md.originalInventory) |->
        IF k \in DOMAIN md.originalInventory THEN md.originalInventory[k]
        ELSE md.currentInventory[k]]]

-----------------------------------------------------------------------------
(* Inputs: the rows a parsed file may hold                                 *)

Cell(name, val) == name :> val

MasterRows ==
  { Cell(<<"s", "k", "u">>, Str(<<"A", "1">>)) @@ Cell(<<"m", "s", "k", "u">>, Str(<<"M", "1">>)),
    Cell(<<"s", "k", "u">>, Str(<<"A", "1", " ">>)) @@ Cell(<<"m", "s", "k", "u">>, Str(<<"A", "1">>)),
    Cell(<<"s", "k", "u">>, Str(<<"A", "2">>)) @@ Cell(<<"m", "s", "k", "u">>, Str(<<"C", "1">>)),
    Cell(<<"S", "K", "U">>, Str(<<"M", "1">>)) @@ Cell(<<"M", "S", "K", "U">>, Str(<<"M", "1">>)),
    Cell(<<"s", "k", "u">>, Str(<<"A", "3">>)) }

ComboRows ==
  { Cell(<<"C", "o", "m", "b", "o">>, Str(<<"C", "1">>)) @@ Cell(<<"S", "K", "U", "1">>, Str(<<"M", "1">>)) @@ Cell(<<"S", "K", "U", "2">>, Str(<<"M", "2">>)),
    Cell(<<"C", "o", "m", "b", "o">>, Str(<<"A", "1">>)) @@ Cell(<<"S", "t", "a", "t", "u", "s">>, Str(<<"A", "c", "t", "i", "v", "e">>)) @@ Cell(<<"S", "K", "U", "1">>, Str(<<"M", "2">>)),
    Cell(<<"C", "o", "m", "b", "o">>, Str(<<"C", "1">>)) @@ Cell(<<"S", "t", "a", "t", "u", "s">>, Str(<<"I", "n", "a", "c", "t", "i", "v", "e">>)) @@ Cell(<<"S", "K", "U", "1">>, Str(<<"M", "1">>)) }

InventoryRows ==
  { Cell(<<"m", "s", "k", "u">>, Str(<<"M", "1">>)) @@ Cell(<<"O", "p", "e", "n", "i", "n", "g", " ", "S", "t", "o", "c", "k">>, Num(5)),
    Cell(<<"m", "s", "k", "u">>, Str(<<"M", "2">>)) @@ Cell(<<"O", "p", "e", "n", "i", "n", "g", " ", "S", "t", "o", "c", "k">>, Num(0)) @@ Cell(<<"B", "L", "R", "7">>, Num(4)),
    Cell(<<"m", "s", "k", "u">>, Str(<<"M", "1">>)) @@ Cell(<<"O", "p", "e", "n", "i", "n", "g", " ", "S", "t", "o", "c", "k">>, Num(-2)),
    Cell(<<"m", "s", "k", "u">>, Str(<<"M", "2">>)) @@ Cell(<<"O", "p", "e", "n", "i", "n", "g", " ", "S", "t", "o", "c", "k">>, Str(<<"a", "b", "c">>)) @@ Cell(<<"B", "u", "f", "f", "e", "r", " ", "S", "t", "o", "c", "k">>, Num(1)) }

AmazonRow(sku, qty, status) ==
  Cell(<<"a", "m", "a", "z", "o", "n", "-", "o", "r", "d", "e", "r", "-", "i", "d">>, Str(<<"X">>)) @@ Cell(<<"S", "K", "U">>, sku) @@ Cell(<<"Q", "u", "a", "n", "t", "i", "t", "y">>, qty)
    @@ Cell(<<"O", "r", "d", "e", "r", " ", "S", "t", "a", "t", "u", "s">>, status)

MeeshoRow(sku, qty, status) ==
  Cell(<<"M", "S", "K", "U">>, sku) @@ Cell(<<"Q", "u", "a", "n", "t", "i", "t", "y">>, qty) @@ Cell(<<"S", "t", "a", "t", "u", "s">>, status)

\* an empty cell: Papa hands it over as '' and findColumnValue skips it
Empty == Str(<<>>)

MasterFiles == SeqsUpTo(MasterRows, MaxMasterRows)
ComboFiles == SeqsUpTo(ComboRows, MaxComboRows)
InventoryFiles == SeqsUpTo(InventoryRows, MaxInventoryRows)

\* the order files a request to the server may carry
OrderFiles ==
  { <<>>,
    <<AmazonRow(Str(<<"A", "1">>), Num(2), Str(<<"D", "e", "l", "i", "v", "e", "r", "e", "d">>))>>,
    <<AmazonRow(Str(<<"A", "1">>), Num(7), Str(<<"S", "h", "i", "p", "p", "e", "d">>)),
      AmazonRow(Str(<<"C", "1">>), Num(1), Str(<<"D", "e", "l", "i", "v", "e", "r", "e", "d">>)),
      AmazonRow(Str(<<" ", " ">>), Num(2), Str(<<"D", "e", "l", "i", "v", "e", "r", "e", "d">>))>>,
    <<MeeshoRow(Str(<<"M", "2">>), Num(1), Str(<<"D", "e", "l", "i", "v", "e", "r", "e", "d">>)),
      MeeshoRow(Str(<<"M", "1">>), Num(3), Str(<<"C", "a", "n", "c", "e", "l", "l", "e", "d">>))>> }

\* the rows the batch processor is tried on
BatchRows ==
  { AmazonRow(Str(<<"A", "1">>), Num(2), Str(<<"D", "e", "l", "i", "v", "e", "r", "e", "d">>)),
    AmazonRow(Str(<<"C", "1">>), Num(2), Str(<<"D", "e", "l", "i", "v", "e", "r", "e", "d">>)),
    AmazonRow(Str(<<"A", "2">>), Num(1), Str(<<"S", "H", "I", "P", "P", "E", "D">>)),
    AmazonRow(Str(<<" ", " ">>), Num(2), Str(<<"D", "e", "l", "i", "v", "e", "r", "e", "d">>)),
    AmazonRow(Empty, Num(2), Str(<<"D", "e", "l", "i", "v", "e", "r", "e", "d">>)),
    AmazonRow(Str(<<"A", "1">>), Num(0), Str(<<"D", "e", "l", "i", "v", "e", "r", "e", "d">>)),
    AmazonRow(Str(<<"A", "1">>), Num(-1), Str(<<"D", "e", "l", "i", "v", "e", "r", "e", "d">>)),
    AmazonRow(Str(<<"A", "1">>), Empty, Str(<<"D", "e", "l", "i", "v", "e", "r", "e", "d">>)),
    AmazonRow(Str(<<"A", "1">>), Num(2), Str(<<"C", "a", "n", "c", "e", "l", "l", "e", "d">>)),
    AmazonRow(Str(<<"A", "1">>), Num(2), Str(<<"c", "a", "n", "c", "e", "l", "l", "e", "d", " ", "-", " ", "d", "e", "l", "i", "v", "e", "r", "e", "d">>)),
    MeeshoRow(Str(<<"A", "1">>), Num(1), Str(<<"D", "e", "l", "i", "v", "e", "r", "e", "d">>)),
    MeeshoRow(Str(<<" ", "A", "1", " ">>), Num(1), Str(<<"D", "e", "l", "i", "v", "e", "r", "e", "d">>)) }

BatchFiles == SeqsUpTo(BatchRows, MaxBatchRows)

-----------------------------------------------------------------------------
(* State after construction, lines 19-24                                   *)

EmptyMasterData ==
  [skuToMsku |-> EmptyMap, comboSkus |-> EmptyMap,
   currentInventory |-> EmptyMap, originalInventory |-> EmptyMap]

NoSummary ==
  [totalOrdersProcessed |-> 0, uniqueMskusAffected |-> 0, totalQuantitySold |-> 0,
   unmappedSkusCount |-> 0, outOfStockItems |-> 0, marketplaceSummary |-> EmptyMap]

\* no response sent yet
NoResponse ==
  [status |-> 0, summary |-> NoSummary, inventoryUpdates |-> <<>>,
   processedOrders |-> <<>>, unmappedSkus |-> <<>>]

\* the locals of a handler that has not reached line 519
NoLocals ==
  [filesDone |-> 0, allProcessedOrders |-> <<>>, combinedMsquMap |-> <<>>,
   allUnmappedSkus |-> <<>>, marketplaceSummary |-> EmptyMap,
   orderData |-> <<>>, marketplace |-> "unknown", result |-> EmptyResult]

\* no second request in flight and none answered yet
NoRequest == [pc |-> "idle", pendingData |-> <<>>, filesDone |-> 0,
              combinedMsquMap |-> <<>>, status |-> 0]

SetLocals(h) ==
  /\ filesDone' = h.filesDone
  /\ allProcessedOrders' = h.allProcessedOrders
  /\ combinedMsquMap' = h.combinedMsquMap
  /\ allUnmappedSkus' = h.allUnmappedSkus
  /\ marketplaceSummary' = h.marketplaceSummary
  /\ orderData' = h.orderData
  /\ marketplace' = h.marketplace
  /\ result' = h.result

Init ==
  /\ masterData = EmptyMasterData
  /\ phase = "master"
  /\ pc = "idle"
  /\ pendingData = <<>>
  /\ filesDone = 0
  /\ allProcessedOrders = <<>>
  /\ combinedMsquMap = <<>>
  /\ allUnmappedSkus = <<>>
  /\ marketplaceSummary = EmptyMap
  /\ orderData = <<>>
  /\ marketplace = "unknown"
  /\ result = EmptyResult
  /\ rowIdx = 0
  /\ res = NoResponse
  /\ loadTimeStock = EmptyMap
  /\ other = NoRequest

-----------------------------------------------------------------------------
(* loadMasterFilesOnStartup, lines 27-72: each file that exists is read,   *)
(* parsed and loaded, in turn; the server listens afterwards (line 714)    *)

StartupReadMaster ==
  /\ phase = "master"
  /\ \/ phase' = "combo" /\ pendingData' = <<>>
     \/ \E data \in MasterFiles : phase' = "masterParsed" /\ pendingData' = data
  /\ UNCHANGED <<masterData, pc, handlerLocals, rowIdx, res, loadTimeStock, other>>

StartupLoadMaster ==
  /\ phase = "masterParsed"
  /\ masterData' = loadMasterData(masterData, pendingData)
  /\ phase' = "combo"
  /\ pendingData' = <<>>
  /\ UNCHANGED <<pc, handlerLocals, rowIdx, res, loadTimeStock, other>>

StartupReadCombo ==
  /\ phase = "combo"
  /\ \/ phase' = "inventory" /\ pendingData' = <<>>
     \/ \E data \in ComboFiles : phase' = "comboParsed" /\ pendingData' = data
  /\ UNCHANGED <<masterData, pc, handlerLocals, rowIdx, res, loadTimeStock, other>>

StartupLoadCombo ==
  /\ phase = "comboParsed"
  /\ masterData' = loadComboData(masterData, pendingData)
  /\ phase' = "inventory"
  /\ pendingData' = <<>>
  /\ UNCHANGED <<pc, handlerLocals, rowIdx, res, loadTimeStock, other>>

StartupReadInventory ==
  /\ phase = "inventory"
  /\ \/ phase' = "listening" /\ pendingData' = <<>>
     \/ \E data \in InventoryFiles : phase' = "inventoryParsed" /\ pendingData' = data
  /\ UNCHANGED <<masterData, pc, handlerLocals, rowIdx, res, loadTimeStock, other>>

StartupLoadInventory ==
  /\ phase = "inventoryParsed"
  /\ masterData' = loadCurrentInventory(masterData, pendingData)
  /\ loadTimeStock' = [k \in DOMAIN masterData'.currentInventory |->
                         masterData'.currentInventory[k].currentStock]
  /\ phase' = "listening"
  /\ pendingData' = <<>>
  /\ UNCHANGED <<pc, handlerLocals, rowIdx, res, other>>

-----------------------------------------------------------------------------
(* POST /process-orders, lines 497-592.  The handler runs from one await   *)
(* to the next without interruption; another handler runs only while this  *)
(* one is suspended at an await (lines 507 and 528).                       *)

ResponseCap == 100

\* lines 538-551 for one processed file
afterFile(h, data, mp, r) ==
  [filesDone |-> h.filesDone + 1,
   allProcessedOrders |-> h.allProcessedOrders \o r.processedOrders,
   combinedMsquMap |-> addAllQty(h.combinedMsquMap, r.msquQuantityMap),
   allUnmappedSkus |-> SetAddAll(h.allUnmappedSkus, r.unmappedSkus),
   marketplaceSummary |->
     MapSet(h.marketplaceSummary, mp,
            [ordersProcessed |-> Len(r.processedOrders),
             uniqueMskus |-> Len(r.msquQuantityMap),
             totalQuantity |-> QtySum(r.msquQuantityMap),
             unmappedSkus |-> Len(r.unmappedSkus)]),
   orderData |-> data,
   marketplace |-> mp,
   result |-> r]

\* lines 559-566
summaryOf(h, inventoryUpdates) ==
  [totalOrdersProcessed |-> Len(h.allProcessedOrders),
   uniqueMskusAffected |-> Len(h.combinedMsquMap),
   totalQuantitySold |-> QtySum(h.combinedMsquMap),
   unmappedSkusCount |-> Len(h.allUnmappedSkus),
   outOfStockItems |-> Cardinality({i \in 1..Len(inventoryUpdates) : inventoryUpdates[i].isOutOfStock}),
   marketplaceSummary |-> h.marketplaceSummary]

\* lines 525-528 and 555-583: with another order file left, the handler reads
\* and parses it and is suspended at line 528; with none left it reconciles
\* the ledger and responds
NextFileOrFinish(md, h) ==
  \/ /\ h.filesDone < MaxOrderFiles
     /\ \E data \in OrderFiles : pendingData' = data
     /\ pc' = "awaitParse"
     /\ masterData' = md
     /\ res' = NoResponse
     /\ SetLocals(h)
  \/ /\ LET u == updateInventoryWithSales(md, h.combinedMsquMap)
        IN  /\ masterData' = u.masterData
            /\ res' = [status |-> 200,
                       summary |-> summaryOf(h, u.inventoryUpdates),
                       inventoryUpdates |-> u.inventoryUpdates,
                       processedOrders |->
                         SubSeq(h.allProcessedOrders, 1,
                                IF Len(h.allProcessedOrders) < ResponseCap
                                THEN Len(h.allProcessedOrders) ELSE ResponseCap),
                       unmappedSkus |-> h.allUnmappedSkus]
     /\ pc' = "idle"
     /\ pendingData' = <<>>
     /\ SetLocals(h)

\* lines 501-513 with a master file uploaded: it is read, parsed and awaited
ProcessOrdersWithMaster ==
  /\ phase = "listening" /\ pc = "idle"
  /\ \E data \in MasterFiles : pendingData' = data
  /\ pc' = "awaitMaster"
  /\ res' = NoResponse
  /\ SetLocals(NoLocals)
  /\ UNCHANGED <<masterData, phase, rowIdx, loadTimeStock, other>>

\* line 507 resumed: the rows are loaded, then lines 515-528 (or to the end)
ProcessOrdersMasterLoaded ==
  /\ pc = "awaitMaster"
  /\ NextFileOrFinish(resetInventory(loadMasterData(masterData, pendingData)), NoLocals)
  /\ UNCHANGED <<phase, rowIdx, loadTimeStock, other>>

\* mutant: the ledger is reset before the mapping table is tested
ProcessOrdersRejectedAfterReset ==
  /\ phase = "listening" /\ pc = "idle"
  /\ DOMAIN masterData.skuToMsku = {}
  /\ masterData' = resetInventory(masterData)
  /\ res' = [NoResponse EXCEPT !.status = 400]
  /\ SetLocals(NoLocals)
  /\ UNCHANGED <<phase, pc, pendingData, rowIdx, loadTimeStock, other>>

\* lines 509-513: no master file and an empty mapping table
ProcessOrdersRejected ==
  /\ phase = "listening" /\ pc = "idle"
  /\ DOMAIN masterData.skuToMsku = {}
  /\ res' = [NoResponse EXCEPT !.status = 400]
  /\ SetLocals(NoLocals)
  /\ UNCHANGED <<masterData, phase, pc, pendingData, rowIdx, loadTimeStock, other>>

\* no master file and a mapping table: lines 515-528 (or to the end)
ProcessOrdersWithoutMaster ==
  /\ phase = "listening" /\ pc = "idle"
  /\ DOMAIN masterData.skuToMsku # {}
  /\ NextFileOrFinish(resetInventory(masterData), NoLocals)
  /\ UNCHANGED <<phase, rowIdx, loadTimeStock, other>>

\* line 528 resumed: lines 531-551 for the parsed file, then the next file
\* or the end
ProcessOrdersFileParsed ==
  /\ pc = "awaitParse"
  /\ LET mp == detectMarketplace(pendingData)
         r == processOrderData(pendingData, mp, masterData)
         h == [filesDone |-> filesDone, allProcessedOrders |-> allProcessedOrders,
               combinedMsquMap |-> combinedMsquMap, allUnmappedSkus |-> allUnmappedSkus,
               marketplaceSummary |-> marketplaceSummary, orderData |-> orderData,
               marketplace |-> marketplace, result |-> result]
     IN  NextFileOrFinish(masterData, afterFile(h, pendingData, mp, r))
  /\ UNCHANGED <<phase, rowIdx, loadTimeStock, other>>

\* POST /reset-inventory, lines 595-601
ResetInventoryEndpoint ==
  /\ phase = "listening"
  /\ masterData' = resetInventory(masterData)
  /\ UNCHANGED <<phase, pc, pendingData, handlerLocals, rowIdx, res, loadTimeStock, other>>

Next ==
  \/ StartupReadMaster
  \/ StartupLoadMaster
  \/ StartupReadCombo
  \/ StartupLoadCombo
  \/ StartupReadInventory
  \/ StartupLoadInventory
  \/ ProcessOrdersWithMaster
  \/ ProcessOrdersMasterLoaded
  \/ ProcessOrdersRejected
  \/ ProcessOrdersWithoutMaster
  \/ ProcessOrdersFileParsed
  \/ ResetInventoryEndpoint

Spec == Init /\ [][Next]_vars

-----------------------------------------------------------------------------
(* Two POST /process-orders requests in flight.  The handler of the second *)
(* request is the same code, lines 497-592, run on the same masterData;    *)
(* it is resumed at its awaits (lines 507 and 528) while the first is      *)
(* suspended at one of its own, or idle.  Of its locals the model keeps    *)
(* those that reach masterData (the file awaited, the files done and       *)
(* combinedMsquMap) and the status of its response.                        *)

otherFrame == <<phase, pc, pendingData, handlerLocals, rowIdx, res, loadTimeStock>>

\* lines 525-528 and 555-583 of the second request
OtherNextFileOrFinish(md, n, m) ==
  \/ /\ n < MaxOtherFiles
     /\ \E data \in OrderFiles :
          other' = [pc |-> "awaitParse", pendingData |-> data, filesDone |-> n,
                    combinedMsquMap |-> m, status |-> 0]
     /\ masterData' = md
  \/ /\ masterData' = updateInventoryWithSales(md, m).masterData
     /\ other' = [NoRequest EXCEPT !.status = 200]

\* lines 501-507 of the second request
OtherWithMaster ==
  /\ phase = "listening" /\ other.pc = "idle"
  /\ \E data \in MasterFiles :
       other' = [NoRequest EXCEPT !.pc = "awaitMaster", !.pendingData = data]
  /\ UNCHANGED <<masterData, otherFrame>>

\* line 507 resumed in the second request
OtherMasterLoaded ==
  /\ other.pc = "awaitMaster"
  /\ OtherNextFileOrFinish(resetInventory(loadMasterData(masterData, other.pendingData)),
                           0, <<>>)
  /\ UNCHANGED otherFrame

\* lines 509-513 of the second request
OtherRejected ==
  /\ phase = "listening" /\ other.pc = "idle"
  /\ DOMAIN masterData.skuToMsku = {}
  /\ other' = [NoRequest EXCEPT !.status = 400]
  /\ UNCHANGED <<masterData, otherFrame>>

\* lines 515-528 of the second request, no master file uploaded
OtherWithoutMaster ==
  /\ phase = "listening" /\ other.pc = "idle"
  /\ DOMAIN masterData.skuToMsku # {}
  /\ OtherNextFileOrFinish(resetInventory(masterData), 0, <<>>)
  /\ UNCHANGED otherFrame

\* line 528 resumed in the second request
OtherFileParsed ==
  /\ other.pc = "awaitParse"
  /\ LET mp == detectMarketplace(other.pendingData)
         r == processOrderData(other.pendingData, mp, masterData)
     IN  OtherNextFileOrFinish(masterData, other.filesDone + 1,
                               addAllQty(other.combinedMsquMap, r.msquQuantityMap))
  /\ UNCHANGED otherFrame

NextConcurrent ==
  \/ Next
  \/ OtherWithMaster
  \/ OtherMasterLoaded
  \/ OtherRejected
  \/ OtherWithoutMaster
  \/ OtherFileParsed

SpecConcurrent == Init /\ [][NextConcurrent]_vars

-----------------------------------------------------------------------------
(* The batch processor on its own: tables loaded from a mapping file and a *)
(* combo file, one parsed order file, classified and then consumed row by  *)
(* row by processOrderData's forEach                                       *)

BatchInit ==
  /\ \E mf \in MasterFiles : \E cf \in ComboFiles :
       masterData = loadComboData(loadMasterData(EmptyMasterData, mf), cf)
  /\ orderData \in BatchFiles
  /\ marketplace = "undetected"
  /\ result = EmptyResult
  /\ rowIdx = 0
  /\ phase = "batch"
  /\ pc = "idle"
  /\ pendingData = <<>>
  /\ filesDone = 0
  /\ allProcessedOrders = <<>>
  /\ combinedMsquMap = <<>>
  /\ allUnmappedSkus = <<>>
  /\ marketplaceSummary = EmptyMap
  /\ res = NoResponse
  /\ loadTimeStock = EmptyMap
  /\ other = NoRequest

batchFrame == <<masterData, phase, pc, pendingData, filesDone, allProcessedOrders,
                combinedMsquMap, allUnmappedSkus, marketplaceSummary, orderData, res,
                loadTimeStock, other>>

\* line 531
BatchDetect ==
  /\ phase = "batch" /\ marketplace = "undetected"
  /\ marketplace' = detectMarketplace(orderData)
  /\ UNCHANGED <<batchFrame, result, rowIdx>>

\* one iteration of the forEach of line 390
BatchRow ==
  /\ phase = "batch" /\ marketplace # "undetected"
  /\ rowIdx < Len(orderData)
  /\ result' = processOrderRow(result, orderData[rowIdx + 1], marketplace, masterData)
  /\ rowIdx' = rowIdx + 1
  /\ UNCHANGED <<batchFrame, marketplace>>

BatchNext == BatchDetect \/ BatchRow

SpecBatch == BatchInit /\ [][BatchNext]_vars

-----------------------------------------------------------------------------
(* Properties                                                              *)

ledger == masterData.currentInventory

\* a step that runs resetInventory: the reset endpoint, or lines 515-516 of
\* the processing handler (any reconciliation later in such a step is of an
\* empty sold-quantity map)
ResetStep ==
  \/ ResetInventoryEndpoint
  \/ ProcessOrdersMasterLoaded
  \/ ProcessOrdersWithoutMaster

\* C1: after the inventory load and any sequence of reconciliations, a step
\* that runs resetInventory leaves every ledger item's currentStock equal to
\* the value it had right after the load.
C1_ResetRestoresLoadTimeStock ==
  [][ResetStep =>
       /\ DOMAIN masterData'.currentInventory = DOMAIN loadTimeStock
       /\ \A k \in DOMAIN loadTimeStock :
            masterData'.currentInventory[k].currentStock = loadTimeStock[k]]_vars

\* C1 witness: a reconciliation has reduced an item's stock (the response
\* reports it) and the item is back at its load-time stock.
C1_Witness ==
  /\ res.status = 200
  /\ \E i \in 1..Len(res.inventoryUpdates) :
       LET u == res.inventoryUpdates[i]
       IN  /\ ~u.notInInventory
           /\ JsGt(u.stockReduced, Num(0))
           /\ ledger[u.msku].currentStock = loadTimeStock[u.msku]

\* a step of the processing handler that ends in updateInventoryWithSales
\* after at least one order file (the reset of line 516 ran in an earlier step)
ReconcileStep == pc = "awaitParse" /\ pc' = "idle"

\* C2: a reconciliation sets the currentStock of every ledger item its
\* sold-quantity map names to max(0, stock before - soldQuantity), never to a
\* value below 0, and leaves every other item's currentStock as it was.
C2_ReconcileClampsAtZero ==
  [][ReconcileStep =>
       \A k \in DOMAIN ledger :
         LET before == ledger[k].currentStock
             after == masterData'.currentInventory[k].currentStock
             sold == QtyGet(combinedMsquMap', k)
         IN  IF QtyHas(combinedMsquMap', k)
             THEN /\ ~JsGt(Num(0), after)
                  /\ before.t = "num" =>
                       after = Num(IF before.v - sold > 0 THEN before.v - sold ELSE 0)
             ELSE after = before]_vars

\* C2 witness: an item was sold in a larger quantity than its stock and the
\* ledger holds it at 0.
C2_Witness ==
  /\ res.status = 200
  /\ \E i \in 1..Len(res.inventoryUpdates) :
       LET u == res.inventoryUpdates[i]
       IN  /\ ~u.notInInventory
           /\ JsGt(Num(u.soldQuantity), u.stockReduced)
           /\ JsGt(u.stockReduced, Num(0))
           /\ ledger[u.msku].currentStock = Num(0)

\* the mapping entry a master row stands for, if it stands for one
MasterRowGives(row, k, val) ==
  \E skuName \in {<<"s", "k", "u">>, <<"S", "K", "U">>, <<"S", "k", "u">>} : \E mskuName \in {<<"m", "s", "k", "u">>, <<"M", "S", "K", "U">>, <<"M", "s", "k", "u">>} :
    /\ skuName \in DOMAIN row /\ mskuName \in DOMAIN row
    /\ row[skuName].t = "str" /\ row[mskuName].t = "str"
    /\ Trim(row[skuName].v) = k /\ Trim(row[mskuName].v) = val

RowNames(row, names, k) ==
  \E name \in names : name \in DOMAIN row /\ row[name].t = "str" /\ Trim(row[name].v) = k

\* C3 (as claimed): each load is a full replacement: after a mapping (combo,
\* inventory) file is loaded, the mapping table (combo table, ledger and
\* snapshot) holds only entries that come from the rows of that file.
C3_LoadReplaces ==
  [][/\ ((phase = "masterParsed" /\ phase' = "combo") \/ (pc = "awaitMaster" /\ pc' # "awaitMaster"))
          => \A k \in DOMAIN masterData'.skuToMsku :
               \E i \in 1..Len(pendingData) :
                 MasterRowGives(pendingData[i], k, masterData'.skuToMsku[k])
     /\ (phase = "comboParsed" /\ phase' = "inventory")
          => \A k \in DOMAIN masterData'.comboSkus :
               \E i \in 1..Len(pendingData) :
                 RowNames(pendingData[i], {<<"C", "o", "m", "b", "o", " ">>, <<"C", "o", "m", "b", "o">>, <<"c", "o", "m", "b", "o">>}, k)
     /\ (phase = "inventoryParsed" /\ phase' = "listening")
          => \A k \in (DOMAIN masterData'.currentInventory) \cup (DOMAIN masterData'.originalInventory) :
               \E i \in 1..Len(pendingData) :
                 RowNames(pendingData[i], {<<"m", "s", "k", "u">>, <<"M", "S", "K", "U">>, <<"M", "s", "k", "u">>}, k)]_vars

\* C4 (as claimed): no entry of the mapping table maps a SKU to itself.
C4_NoIdentityMapping ==
  \A k \in DOMAIN masterData.skuToMsku : masterData.skuToMsku[k] # k

\* the SKU cell of a meesho order row
MeeshoSku(row) == findColumnValue(row, <<<<"M", "S", "K", "U">>, <<"m", "s", "k", "u">>, <<"S", "K", "U">>, <<"s", "k", "u">>>>)

\* the rows of the order file that the forEach has consumed
Consumed == 1..rowIdx

\* C5 (as claimed): for meesho, mapSkuToMsku returns its sku argument
\* unchanged, whatever the mapping table holds.
C5_MeeshoUnchanged ==
  marketplace = "meesho" =>
    \A i \in Consumed :
      LET sku == MeeshoSku(orderData[i])
      IN  sku.t = "str" /\ sku.v # <<>> => mapSkuToMsku(sku, marketplace, masterData) = sku.v

\* C5 (amended): for meesho, mapSkuToMsku returns its sku argument with the
\* white space around it removed, whatever the mapping table holds; a row
\* whose SKU hits no combo is emitted under that trimmed SKU.
C5_MeeshoTrimmed ==
  marketplace = "meesho" =>
    \A i \in Consumed :
      LET sku == MeeshoSku(orderData[i])
      IN  sku.t = "str" /\ sku.v # <<>> =>
            /\ mapSkuToMsku(sku, marketplace, masterData) = Trim(sku.v)
            /\ \A j \in 1..Len(result.processedOrders) :
                 LET line == result.processedOrders[j]
                 IN  (line.originalSku = sku /\ ~(Trim(sku.v) \in DOMAIN masterData.comboSkus)
                        /\ ~(sku.v \in DOMAIN masterData.comboSkus))
                       => line.mappedMsku = Trim(sku.v)

\* C5 witness: a meesho row whose SKU is a key of the mapping table has been
\* consumed and emitted under its own SKU.
C5_Witness ==
  /\ marketplace = "meesho"
  /\ \E i \in Consumed :
       LET sku == MeeshoSku(orderData[i])
       IN  /\ sku.t = "str"
           /\ Trim(sku.v) \in DOMAIN masterData.skuToMsku
           /\ \E j \in 1..Len(result.processedOrders) :
                /\ result.processedOrders[j].originalSku = sku
                /\ result.processedOrders[j].mappedMsku = Trim(sku.v)

NegativeKeywords == {<<"c", "a", "n", "c", "e", "l", "l", "e", "d">>, <<"r", "e", "t", "u", "r", "n", "e", "d">>, <<"r", "e", "f", "u", "n", "d", "e", "d">>, <<"r", "e", "j", "e", "c", "t", "e", "d">>, <<"f", "a", "i", "l", "e", "d">>}
PositiveKeywords ==
  {<<"d", "e", "l", "i", "v", "e", "r", "e", "d">>, <<"s", "h", "i", "p", "p", "e", "d">>, <<"r", "e", "a", "d", "y", "_", "t", "o", "_", "s", "h", "i", "p">>, <<"d", "i", "s", "p", "a", "t", "c", "h", "e", "d">>, <<"c", "o", "m", "p", "l", "e", "t", "e", "d">>, <<"f", "u", "l", "f", "i", "l", "l", "e", "d">>,
   <<"o", "u", "t", "_", "f", "o", "r", "_", "d", "e", "l", "i", "v", "e", "r", "y">>, <<"s", "u", "c", "c", "e", "s", "s">>, <<"c", "o", "n", "f", "i", "r", "m", "e", "d">>, <<"p", "r", "o", "c", "e", "s", "s", "i", "n", "g">>, <<"p", "a", "c", "k", "e", "d">>, <<"i", "n", "_", "t", "r", "a", "n", "s", "i", "t">>}

StatusHas(status, keywords) ==
  status.t = "str" /\ \E kw \in keywords : Includes(ToLowerCase(status.v), kw)

\* the row the next iteration of the forEach consumes, and its cells
NextRow == orderData[rowIdx + 1]
NextInfo == extractOrderInfo(NextRow, marketplace)
NextQuantityCell == findColumnValue(NextRow, quantityAliases(marketplace))

\* C6: an order row whose status contains a negative keyword, in any letter
\* case, is rejected even when the status also contains a positive keyword:
\* consuming it adds no ProcessedOrderLine, no quantity to a per-MSKU total and
\* no unmapped SKU, and no emitted line carries such a status.
C6_NegativeStatusVetoes ==
  [][BatchRow =>
       /\ StatusHas(NextInfo.status, NegativeKeywords) => result' = result
       /\ \A j \in 1..Len(result'.processedOrders) :
            ~StatusHas(result'.processedOrders[j].status, NegativeKeywords)]_vars

\* C6 witness: a row with a present SKU, a positive quantity and a status that
\* contains both a negative and a positive keyword has been consumed, and the
\* batch holds nothing.
C6_Witness ==
  /\ phase = "batch" /\ rowIdx >= 1
  /\ LET info == extractOrderInfo(orderData[rowIdx], marketplace)
     IN  /\ StatusHas(info.status, NegativeKeywords)
         /\ StatusHas(info.status, PositiveKeywords)
         /\ Truthy(info.sku) /\ JsGt(info.quantity, Num(0))
  /\ result = EmptyResult

\* the components a SKU expands to: the combo of its normalized MSKU, else
\* the combo of the raw SKU, else the normalized MSKU alone
Normalized(sku, mp, md) ==
  IF mp # "meesho" /\ Trim(toString(sku)) \in DOMAIN md.skuToMsku
  THEN md.skuToMsku[Trim(toString(sku))]
  ELSE Trim(toString(sku))

Components(sku, mp, md) ==
  IF Normalized(sku, mp, md) \in DOMAIN md.comboSkus
  THEN md.comboSkus[Normalized(sku, mp, md)]
  ELSE IF sku.t = "str" /\ sku.v \in DOMAIN md.comboSkus THEN md.comboSkus[sku.v]
  ELSE <<[msku |-> Normalized(sku, mp, md), quantity |-> 1]>>

LineOf(c, info, mp, n) ==
  [marketplace |-> mp, originalSku |-> info.sku, mappedMsku |-> c.msku,
   quantity |-> c.quantity * info.quantity.v, status |-> info.status,
   isComboComponent |-> n > 1]

RECURSIVE UnitsOf(_, _)
UnitsOf(cs, msku) ==
  IF cs = <<>> THEN 0
  ELSE (IF Head(cs).msku = msku THEN Head(cs).quantity ELSE 0) + UnitsOf(Tail(cs), msku)

NonEmptyMsku(c) == c.msku # <<>>

\* the next row is gate-accepted and has a present SKU and a quantity > 0
NextRowCounts ==
  /\ StatusHas(NextInfo.status, PositiveKeywords)
  /\ ~StatusHas(NextInfo.status, NegativeKeywords)
  /\ Truthy(NextInfo.sku)
  /\ JsGt(NextInfo.quantity, Num(0))

\* what consuming the next row adds, given the components that emit a line
RowEmits(cs, all) ==
  /\ result'.processedOrders =
       result.processedOrders \o [i \in 1..Len(cs) |-> LineOf(cs[i], NextInfo, marketplace, Len(all))]
  /\ \A i \in 1..Len(cs) :
       QtyGet(result'.msquQuantityMap, cs[i].msku) =
         QtyGet(result.msquQuantityMap, cs[i].msku) + UnitsOf(cs, cs[i].msku) * NextInfo.quantity.v
  /\ \A i \in 1..Len(result'.msquQuantityMap) :
       LET m == result'.msquQuantityMap[i].msku
       IN  (\A j \in 1..Len(cs) : cs[j].msku # m) =>
             QtyHas(result.msquQuantityMap, m) /\ QtyGet(result.msquQuantityMap, m) = result'.msquQuantityMap[i].qty

\* C7 (as claimed): a gate-accepted row with a present SKU and quantity q > 0
\* emits exactly one ProcessedOrderLine per component of its SKU, of quantity
\* unitsPerCombo x q, and adds that amount to the component's per-MSKU total.
C7_OneLinePerComponent ==
  [][(BatchRow /\ NextRowCounts) =>
       LET all == Components(NextInfo.sku, marketplace, masterData)
       IN  RowEmits(all, all)]_vars

\* C7 (amended): ... emits exactly one ProcessedOrderLine per component whose
\* MSKU is not empty, of quantity unitsPerCombo x q, and adds that amount to
\* the component's per-MSKU total; a component whose MSKU is empty emits no
\* line and the row's SKU is recorded as unmapped.
C7_OneLinePerNamedComponent ==
  [][(BatchRow /\ NextRowCounts) =>
       LET all == Components(NextInfo.sku, marketplace, masterData)
           named == SelectSeq(all, NonEmptyMsku)
       IN  /\ RowEmits(named, all)
           /\ Len(named) < Len(all) =>
                \E i \in 1..Len(result'.unmappedSkus) : result'.unmappedSkus[i] = NextInfo.sku]_vars

\* C7 witness: an order of 2 of a combo of two components has been consumed as
\* the first row and the batch holds one line of quantity 2 for each of them.
C7_Witness ==
  /\ phase = "batch" /\ rowIdx = 1
  /\ LET info == extractOrderInfo(orderData[1], marketplace)
     IN  /\ info.quantity = Num(2)
         /\ info.sku.t = "str" /\ info.sku.v \in DOMAIN masterData.comboSkus
         /\ Len(masterData.comboSkus[info.sku.v]) = 2
  /\ Len(result.processedOrders) = 2
  /\ \A j \in 1..2 : /\ result.processedOrders[j].quantity = 2
                     /\ result.processedOrders[j].isComboComponent
                     /\ QtyGet(result.msquQuantityMap, result.processedOrders[j].mappedMsku) = 2

\* C8 (as claimed): a gate-accepted row whose SKU is missing, or whose quantity
\* cell is zero or negative, is dropped: consuming it adds no line, no
\* quantity and no unmapped SKU.
C8_DropsMissingSkuOrNonPositiveQuantity ==
  [][(/\ BatchRow
      /\ StatusHas(NextInfo.status, PositiveKeywords)
      /\ ~StatusHas(NextInfo.status, NegativeKeywords)
      /\ \/ ~Truthy(NextInfo.sku)
         \/ (NextQuantityCell.t = "num" /\ NextQuantityCell.v <= 0))
       => result' = result]_vars

Tags == {"meesho", "amazon", "flipkart", "generic", "unknown"}

LinesOf(lines, m) == SelectSeq(lines, LAMBDA l : l.marketplace = m)

RECURSIVE SumQuantity(_)
SumQuantity(lines) == IF lines = <<>> THEN 0 ELSE Head(lines).quantity + SumQuantity(Tail(lines))

RECURSIVE SumBreakdown(_, _)
SumBreakdown(ms, tags) ==
  IF tags = {} THEN 0
  ELSE LET m == CHOOSE x \in tags : TRUE
       IN  (IF m \in DOMAIN ms THEN ms[m].totalQuantity ELSE 0) + SumBreakdown(ms, tags \ {m})

\* C9 (as claimed): in the summary of a processing run, the breakdown entry of
\* every marketplace m counts the ProcessedOrderLines of m and sums their
\* quantities, over all the order files of the run, and the breakdown's
\* totalQuantity values sum to totalQuantitySold.
C9_BreakdownMatchesLines ==
  res.status = 200 =>
    /\ \A m \in Tags :
         LET lines == LinesOf(allProcessedOrders, m)
         IN  IF m \in DOMAIN res.summary.marketplaceSummary
             THEN /\ res.summary.marketplaceSummary[m].ordersProcessed = Len(lines)
                  /\ res.summary.marketplaceSummary[m].totalQuantity = SumQuantity(lines)
             ELSE lines = <<>>
    /\ SumBreakdown(res.summary.marketplaceSummary, Tags) = res.summary.totalQuantitySold

\* a step in which a processing request that carries no master file starts
\* (the other steps out of an idle handler are a request with a master file,
\* which is then awaited, and the reset endpoint)
StartsWithoutMaster ==
  /\ phase = "listening" /\ pc = "idle"
  /\ pc' # "awaitMaster"
  /\ ~ResetInventoryEndpoint

\* C10: a processing request without a master file that finds the mapping
\* table empty is answered with an error before an order file is read, and
\* leaves the ledger, the snapshot, the mapping table and the combo table as
\* they were: no reset, no reconciliation.
C10_RejectedWithoutMasterData ==
  [][(StartsWithoutMaster /\ DOMAIN masterData.skuToMsku = {}) =>
       /\ res'.status = 400
       /\ masterData' = masterData
       /\ pc' = "idle"
       /\ pendingData' = pendingData
       /\ filesDone' = 0]_vars

\* C10 witness: a request was rejected while a ledger item stood below its
\* load-time stock, and the item still does.
C10_Witness ==
  /\ res.status = 400
  /\ DOMAIN masterData.skuToMsku = {}
  /\ \E k \in DOMAIN ledger : ledger[k].currentStock # loadTimeStock[k]

-----------------------------------------------------------------------------
\* the stock the specification gives an item after a request: load-time
\* stock less the request's sold quantity, never below 0
StockAfter(load, sold) == Num(IF load.v - sold > 0 THEN load.v - sold ELSE 0)

\* a stock value that is an integer >= 0
NonNegative(v) == v.t = "num" /\ v.v >= 0

\* a step in which the first request completes with a response of status 200
\* after at least one await
CompletesStep == pc \in {"awaitMaster", "awaitParse"} /\ pc' = "idle"

\* the first request stays suspended at line 528, between its resetInventory
\* (line 516) and its updateInventoryWithSales (line 556)
SuspendedStep == pc = "awaitParse" /\ pc' = "awaitParse"

\* C11: with the awaits of the handler as the only points where another
\* request runs, nothing another request does changes the ledger while one
\* request stands between its resetInventory and its updateInventoryWithSales,
\* and when that request completes every ledger item (of a load-time stock
\* that is an integer >= 0) has currentStock = max(0, load-time stock - the
\* request's combined sold quantity).
C11_LedgerMutationAtomic ==
  [][/\ SuspendedStep => ledger' = ledger
     /\ CompletesStep =>
          \A k \in DOMAIN ledger' :
            NonNegative(loadTimeStock[k]) =>
              ledger'[k].currentStock =
                StockAfter(loadTimeStock[k], QtyGet(combinedMsquMap', k))]_vars

-----------------------------------------------------------------------------
\* the text of a SKU cell without its leading and trailing white space
OwnMsku(sku) == Trim(toString(sku))

\* row i of the file last processed is gate-accepted with a SKU and a
\* quantity > 0, and its SKU has no mapping and no combo entry
UnknownSkuRow(i) ==
  LET info == extractOrderInfo(orderData[i], marketplace)
  IN  /\ shouldProcessOrder(info.status, marketplace)
      /\ rowHasSkuAndQuantity(info)
      /\ OwnMsku(info.sku) \notin DOMAIN masterData.skuToMsku
      /\ OwnMsku(info.sku) \notin DOMAIN masterData.comboSkus
      /\ ~hasRawCombo(info.sku, masterData)

\* the lines of the file last processed that stem from the SKU cell sku
LinesFrom(sku) == SelectSeq(result.processedOrders, LAMBDA l : l.originalSku = sku)

\* row i passed through: each row of its SKU gave one line, mapped to the
\* SKU's own text and not a combo component, and the SKU is not unmapped
PassedThrough(i) ==
  LET sku == extractOrderInfo(orderData[i], marketplace).sku
      same == {j \in 1..Len(orderData) :
                 /\ UnknownSkuRow(j)
                 /\ extractOrderInfo(orderData[j], marketplace).sku = sku}
  IN  /\ Len(LinesFrom(sku)) = Cardinality(same)
      /\ \A n \in 1..Len(LinesFrom(sku)) :
           /\ LinesFrom(sku)[n].mappedMsku = OwnMsku(sku)
           /\ ~LinesFrom(sku)[n].isComboComponent
      /\ \A n \in 1..Len(result.unmappedSkus) : result.unmappedSkus[n] # sku

\* the InventoryUpdates of a response that name msku
UpdatesOf(updates, msku) == SelectSeq(updates, LAMBDA u : u.msku = msku)

\* the reconciliation of a completing request handles the sold-quantity
\* entries without a ledger item as not found, and leaves the key sets, the
\* snapshot and every ledger item that no entry names as they were
NotFoundHandled ==
  /\ res'.status = 200
  /\ \A n \in 1..Len(combinedMsquMap') :
       LET msku == combinedMsquMap'[n].msku
           us == UpdatesOf(res'.inventoryUpdates, msku)
       IN  msku \notin DOMAIN ledger =>
             /\ Len(us) = 1
             /\ us[1].originalStock = Num(0)
             /\ us[1].newStock = Num(0)
             /\ us[1].stockReduced = Num(0)
             /\ us[1].notInInventory
  /\ DOMAIN ledger' = DOMAIN ledger
  /\ masterData'.originalInventory = masterData.originalInventory
  /\ \A k \in DOMAIN ledger : ~QtyHas(combinedMsquMap', k) => ledger'[k] = ledger[k]

\* C12 as stated: a gate-accepted order for a SKU with no mapping and no
\* combo entry passes through as its own MSKU (one line, not listed as
\* unmapped), and reconciling an entry whose MSKU has no ledger item emits
\* one InventoryUpdate of zeros with the not-found flag, raises no error and
\* changes neither the key set nor any stock of the ledger or the snapshot.
C12_UnknownSkuPassesThrough ==
  [][/\ \A i \in 1..Len(orderData) : UnknownSkuRow(i) => PassedThrough(i)
     /\ ReconcileStep => NotFoundHandled]_vars

\* C12 amended: the same for a SKU cell that is not blank (not white space
\* only), which passes through as its text without the surrounding white
\* space.
C12_NonBlankUnknownSkuPassesThrough ==
  [][/\ \A i \in 1..Len(orderData) :
          (UnknownSkuRow(i) /\ OwnMsku(extractOrderInfo(orderData[i], marketplace).sku) # <<>>)
            => PassedThrough(i)
     /\ ReconcileStep => NotFoundHandled]_vars

\* C12 witness: a request answered with status 200 whose last file held an
\* order for an unknown SKU; the SKU passed through to a line, its sold
\* quantity found no ledger item and was reported as not found, while the
\* ledger holds items.
C12_Witness ==
  /\ pc = "idle" /\ res.status = 200 /\ filesDone > 0
  /\ DOMAIN ledger # {}
  /\ \E i \in 1..Len(orderData) :
       LET sku == extractOrderInfo(orderData[i], marketplace).sku
       IN  /\ UnknownSkuRow(i)
           /\ OwnMsku(sku) # <<>>
           /\ OwnMsku(sku) \notin DOMAIN ledger
           /\ Len(LinesFrom(sku)) = 1
           /\ \E n \in 1..Len(res.inventoryUpdates) :
                /\ res.inventoryUpdates[n].msku = OwnMsku(sku)
                /\ res.inventoryUpdates[n].notInInventory

-----------------------------------------------------------------------------
\* the stock fields of an item are integers >= 0
StocksNonNegative(item) == NonNegative(item.currentStock) /\ NonNegative(item.originalStock)

\* C13: in every reachable state every ledger item and every snapshot item
\* has currentStock and originalStock that are integers >= 0, whatever the
\* opening-stock and location-stock cells of the inventory file held
\* (missing, non-numeric, zero, negative or positive).
C13_StocksAreNonNegativeIntegers ==
  /\ \A k \in DOMAIN masterData.currentInventory :
       StocksNonNegative(masterData.currentInventory[k])
  /\ \A k \in DOMAIN masterData.originalInventory :
       StocksNonNegative(masterData.originalInventory[k])

-----------------------------------------------------------------------------
\* a step in which a processing request completes with a response of
\* status 200: after its last await, or at once when it carries no file
RequestCompletes ==
  \/ CompletesStep
  \/ pc = "idle" /\ pc' = "idle" /\ ProcessOrdersWithoutMaster

\* max(0, load-time stock - sold), computed as Math.max and - compute it
MaxZeroLess(load, sold) == JsMax(Num(0), JsSub(load, Num(sold)))

\* C14: processing requests are history-independent: whatever ran before,
\* when a request completes every ledger item has currentStock =
\* max(0, load-time stock - the combined sold quantity of this request); the
\* ledger is then a function of the snapshot and of the request's sold
\* quantities alone, so the same order files submitted twice in a row leave
\* the ledger they leave when submitted once.
C14_HistoryIndependent ==
  [][RequestCompletes =>
       \A k \in DOMAIN ledger' :
         ledger'[k].currentStock =
           MaxZeroLess(loadTimeStock[k], QtyGet(combinedMsquMap', k))]_vars

====
